---- MODULE Spec2Model ----
(***************************************************************************)
(* font-reel (main.py): a fixed text is rendered once per frame, centred   *)
(* on a black canvas, with a font fitted to a box by binary search; the    *)
(* frames of all resolved fonts are handed, in order, to the encoder.      *)
(*                                                                         *)
(* Two specifications:                                                     *)
(*   Spec       the pipeline of main(): font resolution, system fallback,  *)
(*              the rendering loops, the encoder call;                     *)
(*   SpecFrame  one call of create_frame, with the binary search of        *)
(*              fit_text_on_image taken one loop iteration at a time       *)
(*              (SpecFrameFair adds the fairness of a running program).    *)
(***************************************************************************)
EXTENDS Integers, Sequences, FiniteSets, TLC

(* ---- Configuration (main.py 17-40) ---- *)
WIDTH == 1080
HEIGHT == 1920
FPS == 30
\* SECONDS_PER_FONT = 2.0, kept as the exact decimal 20/10
SECONDS_PER_FONT_TENTHS == 20

GOOGLE_FONTS ==
    << [family |-> "Roboto",          dir |-> "roboto",          file |-> "Roboto-Regular.ttf"],
       [family |-> "Montserrat",      dir |-> "montserrat",      file |-> "Montserrat-Regular.ttf"],
       [family |-> "Poppins",         dir |-> "poppins",         file |-> "Poppins-Regular.ttf"],
       [family |-> "Lora",            dir |-> "lora",            file |-> "Lora-Regular.ttf"],
       [family |-> "Oswald",          dir |-> "oswald",          file |-> "Oswald-Regular.ttf"],
       [family |-> "PlayfairDisplay", dir |-> "playfairdisplay", file |-> "PlayfairDisplay-Regular.ttf"],
       [family |-> "Merriweather",    dir |-> "merriweather",    file |-> "Merriweather-Regular.ttf"],
       [family |-> "Raleway",         dir |-> "raleway",         file |-> "Raleway-Regular.ttf"],
       [family |-> "Nunito",          dir |-> "nunito",          file |-> "Nunito-Regular.ttf"],
       [family |-> "SourceSansPro",   dir |-> "sourcesanspro",   file |-> "SourceSansPro-Regular.ttf"] >>

\* Bound of the model: the pipeline is run on the first NumFamilies entries
\* of GOOGLE_FONTS.
NumFamilies == 3

Families == SubSeq(GOOGLE_FONTS, 1, NumFamilies)

fallback_systems ==
    << "/usr/share/fonts/truetype/dejavu/DejaVuSans.ttf",
       "/usr/share/fonts/truetype/liberation/LiberationSans-Regular.ttf" >>

(* ---- Values ---- *)
\* Python's None, for a font object (a loaded font is its point size) and a path
None == 0
NoPath == ""
\* the object ImageFont.load_default() returns
DefaultFont == 0 - 1

\* fit_text_on_image's size bounds
LO == 6
HI == 320

Max(a, b) == IF a >= b THEN a ELSE b

(* ---- The font file, as PIL sees it ---- *)
\* A font file is described by what ImageFont.truetype and draw.textsize do
\* with it: the text is kw*size wide and kh*size high, except at the size dip
\* (0: none), where the face renders the text only kw wide (an embedded
\* strike); truetype raises OSError at the size bad, at every size when
\* bad = AlwaysFails, never when bad = NeverFails. dw x dh is the size of the
\* text in PIL's default font.
NeverFails == 0
AlwaysFails == 0 - 1

Fonts ==
    [kw : {1, 7, 40, 162, 163}, kh : {1, 3, 5}, dip : {0, 163, 300},
     bad : {NeverFails, AlwaysFails, 84, 163, 242, 300},
     dw : {84, 85, 1200, 1201}, dh : {11, 2001}]

\* the font files the pipeline is run on
PipelineFonts ==
    { [kw |-> 7,   kh |-> 3, dip |-> 0, bad |-> NeverFails, dw |-> 84,   dh |-> 11],
      [kw |-> 163, kh |-> 1, dip |-> 0, bad |-> NeverFails, dw |-> 85,   dh |-> 11],
      [kw |-> 1,   kh |-> 1, dip |-> 0, bad |-> 242,        dw |-> 1201, dh |-> 2001] }

\* ImageFont.truetype(font_path, size) succeeds
FontLoads(fnt, size) == fnt.bad # AlwaysFails /\ fnt.bad # size

\* draw.textsize(text, font=f): <<w, h>>
textsize(fnt, f) ==
    IF f = DefaultFont THEN << fnt.dw, fnt.dh >>
    ELSE IF f = fnt.dip THEN << fnt.kw, fnt.kh * f >>
    ELSE << fnt.kw * f, fnt.kh * f >>

(* ---- fit_text_on_image (main.py 82-103) ---- *)
\* the test of line 98
FitsBox(wh, max_width, max_height) == wh[1] <= max_width /\ wh[2] <= max_height

FitsBoxStrict(wh, max_width, max_height) == wh[1] < max_width /\ wh[2] < max_height

\* The state of the search: lo, hi, best_font, and once it has returned
\* (returned # "no") the value ret.
FitStart == [lo |-> LO, hi |-> HI, best_font |-> None, returned |-> "no", ret |-> None]

\* a variant of the loop iteration that leaves on OSError with `break`
FitStepBreak(fnt, max_width, max_height, s) ==
    IF s.lo <= s.hi
    THEN LET mid == (s.lo + s.hi) \div 2 IN
         IF ~FontLoads(fnt, mid)
         THEN [s EXCEPT !.returned = "oserror", !.ret = s.best_font]
         ELSE IF FitsBox(textsize(fnt, mid), max_width, max_height)
              THEN [s EXCEPT !.best_font = mid, !.lo = mid + 1]
              ELSE [s EXCEPT !.hi = mid - 1]
    ELSE [s EXCEPT !.returned = "crossed", !.ret = s.best_font]

\* a variant of the loop iteration that moves lo to mid, not past it
FitStepNoShrink(fnt, max_width, max_height, s) ==
    IF s.lo <= s.hi
    THEN LET mid == (s.lo + s.hi) \div 2 IN
         IF ~FontLoads(fnt, mid)
         THEN [s EXCEPT !.returned = "oserror", !.ret = None]
         ELSE IF FitsBox(textsize(fnt, mid), max_width, max_height)
              THEN [s EXCEPT !.best_font = mid, !.lo = mid]
              ELSE [s EXCEPT !.hi = mid - 1]
    ELSE [s EXCEPT !.returned = "crossed", !.ret = s.best_font]

\* a variant of the loop iteration that tests w < max_width and h < max_height
FitStepStrict(fnt, max_width, max_height, s) ==
    IF s.lo <= s.hi
    THEN LET mid == (s.lo + s.hi) \div 2 IN
         IF ~FontLoads(fnt, mid)
         THEN [s EXCEPT !.returned = "oserror", !.ret = None]
         ELSE IF FitsBoxStrict(textsize(fnt, mid), max_width, max_height)
              THEN [s EXCEPT !.best_font = mid, !.lo = mid + 1]
              ELSE [s EXCEPT !.hi = mid - 1]
    ELSE [s EXCEPT !.returned = "crossed", !.ret = s.best_font]

\* One evaluation of `while lo <= hi` and, when it holds, one loop body
\* (lines 90-102); when it does not, the return of line 103.
FitStep(fnt, max_width, max_height, s) ==
    IF s.lo <= s.hi
    THEN LET mid == (s.lo + s.hi) \div 2 IN
         IF ~FontLoads(fnt, mid)
         THEN [s EXCEPT !.returned = "oserror", !.ret = None]
         ELSE IF FitsBox(textsize(fnt, mid), max_width, max_height)
              THEN [s EXCEPT !.best_font = mid, !.lo = mid + 1]
              ELSE [s EXCEPT !.hi = mid - 1]
    ELSE [s EXCEPT !.returned = "crossed", !.ret = s.best_font]

RECURSIVE FitRun(_, _, _, _)
FitRun(fnt, max_width, max_height, s) ==
    IF s.returned # "no" THEN s.ret
    ELSE FitRun(fnt, max_width, max_height, FitStep(fnt, max_width, max_height, s))

\* the whole call: the font returned (a size), or None
fit_text_on_image(fnt, max_width, max_height) ==
    FitRun(fnt, max_width, max_height, FitStart)

(* ---- create_frame (main.py 105-126) ---- *)
\* int(img_w * 0.9) and int(img_h * 0.5), lines 111-112
max_w(img_w) == (img_w * 9) \div 10
max_h(img_h) == (img_h * 5) \div 10

\* a variant of lines 116-118 that keeps None
FontOrDefaultKeep(f) == f

\* lines 116-118
FontOrDefault(f) == IF f = None THEN DefaultFont ELSE f

\* a variant of lines 121-122 that does not halve
OriginNoHalf(img_size, text_size) == img_size - text_size

\* lines 121-122: (img_w - w) // 2, Python's floor division
Origin(img_size, text_size) == (img_size - text_size) \div 2

\* lines 116-126, given the font the fit returned: the image, as the font
\* drawn with, the measured text size, the draw origin and the canvas size
RenderImage(fnt, img_w, img_h, fitted) ==
    LET f  == FontOrDefault(fitted)
        wh == textsize(fnt, f)
    IN  [font |-> f, w |-> wh[1], h |-> wh[2],
         x |-> Origin(img_w, wh[1]), y |-> Origin(img_h, wh[2]),
         img_w |-> img_w, img_h |-> img_h]

create_frame(img_w, img_h, fnt) ==
    RenderImage(fnt, img_w, img_h, fit_text_on_image(fnt, max_w(img_w), max_h(img_h)))

NoImage == [font |-> None, w |-> 0, h |-> 0, x |-> 0, y |-> 0, img_w |-> 0, img_h |-> 0]

(* ---- download_font (main.py 59-80) ---- *)
\* what requests.get does: status 200, another status, or an exception;
\* "cached" when the file is there and no request is made
Responses == {"200", "404", "exception"}

\* a variant that returns the local path whatever the status
download_font_any(file, exists, resp) ==
    IF exists THEN file
    ELSE IF resp = "exception" THEN NoPath ELSE file

\* the local path, or NoPath for None
download_font(file, exists, resp) ==
    IF exists THEN file
    ELSE IF resp = "200" THEN file ELSE NoPath

(* ---- main (main.py 128-186) ---- *)
\* round(n / d) for n >= 0, d > 0: to nearest, ties to even
round(n, d) ==
    LET q == n \div d
        r == n % d
    IN  IF 2 * r < d THEN q
        ELSE IF 2 * r > d THEN q + 1
        ELSE IF q % 2 = 0 THEN q ELSE q + 1

\* a variant of line 162 that leaves the seconds out
frame_count_no_seconds == Max(1, FPS)

\* line 162
frame_count_per_font == Max(1, round(SECONDS_PER_FONT_TENTHS * FPS, 10))

\* a variant of line 157 that tests for None
NoFontsIsNone(ff) == FALSE

\* `not font_files`, lines 147 and 157
NoFonts(ff) == ff = << >>

\* a variant of line 172 that puts the new frame first
AddFrameFirst(fs, name) == << name >> \o fs

\* line 172
AddFrame(fs, name) == Append(fs, name)

\* a variant of the inner loop that renders one frame per font
InnerLoopDoneOnce(n) == n >= 1

\* range(frame_count_per_font) is exhausted after n iterations, line 168
InnerLoopDone(n) == n >= frame_count_per_font

VARIABLES
    pc,           \* where main() is
    k,            \* index of the GOOGLE_FONTS entry the download loop is at
    fonts_dir,    \* the files present in FONTS_DIR
    font_files,   \* main's list of (family, path)
    dl_log,       \* history: what download_font returned, per entry
    fallback_used,\* history: the fallback paths were looked at
    fi,           \* index in font_files of the outer rendering loop
    i,            \* the inner loop's i
    frames,       \* main's list of frame file names (the frame index)
    frame_index,
    tmp_frames,   \* TEMP_FRAMES_DIR: frame index -> the image saved
    fit_calls,    \* history: calls of fit_text_on_image, per font_files index
    output,       \* the files written to OUTPUT: none, or the one clip
    error,        \* the exception main() ended with, "none" if none
    font,         \* the font file being rendered
    cf_pc,        \* where create_frame is (SpecFrame)
    lo, hi, best_font,
    returned,     \* "no", or how fit_text_on_image returned
    ret,          \* the value fit_text_on_image returned
    probes,       \* history: the sizes tried, in order
    recorded,     \* history: the sizes assigned to best_font
    img           \* the image create_frame returned

pvars == << pc, k, fonts_dir, font_files, dl_log, fallback_used, fi, i, frames,
            frame_index, tmp_frames, fit_calls, output, error >>
fvars == << cf_pc, lo, hi, best_font, returned, ret, probes, recorded, img >>
vars == << pvars, font, fvars >>

FontFiles == { Families[n].file : n \in 1..Len(Families) }

FrameIdle ==
    /\ cf_pc = "idle"
    /\ lo = LO /\ hi = HI /\ best_font = None
    /\ returned = "no" /\ ret = None
    /\ probes = << >> /\ recorded = {}
    /\ img = NoImage

\* main() after lines 129-138: the directories exist, the frames directory is
\* empty; any of the font files may be there from an earlier run
Init ==
    /\ pc = "download"
    /\ k = 1
    /\ fonts_dir \in SUBSET FontFiles
    /\ font_files = << >>
    /\ dl_log = << >>
    /\ fallback_used = FALSE
    /\ fi = 0 /\ i = 0
    /\ frames = << >>
    /\ frame_index = 0
    /\ tmp_frames = << >>
    /\ fit_calls = << >>
    /\ output = << >>
    /\ error = "none"
    /\ font = CHOOSE f \in PipelineFonts : TRUE
    /\ FrameIdle

\* lines 139-144, one iteration: download_font and the append or the warning
Download ==
    /\ pc = "download"
    /\ \E resp \in (IF Families[k].file \in fonts_dir THEN {"cached"} ELSE Responses) :
        LET e      == Families[k]
            exists == e.file \in fonts_dir
            local  == download_font(e.file, exists, resp)
        IN  /\ font_files' = IF local # NoPath
                             THEN Append(font_files, [family |-> e.family, path |-> local])
                             ELSE font_files
            /\ fonts_dir' = IF ~exists /\ resp = "200"
                            THEN fonts_dir \cup {e.file} ELSE fonts_dir
            /\ dl_log' = Append(dl_log, [exists |-> exists, resp |-> resp])
    /\ k' = k + 1
    /\ pc' = IF k = Len(Families) THEN "fallback" ELSE "download"
    /\ UNCHANGED << fallback_used, fi, i, frames, frame_index, tmp_frames,
                    fit_calls, output, error, font, fvars >>

\* lines 146-155: the system fonts, looked at when nothing was downloaded
Fallback ==
    /\ pc = "fallback"
    /\ IF NoFonts(font_files)
       THEN \E present \in SUBSET {1, 2} :
              /\ font_files' =
                   (IF 1 \in present
                    THEN << [family |-> "system", path |-> fallback_systems[1]] >>
                    ELSE << >>)
                   \o
                   (IF 2 \in present
                    THEN << [family |-> "system", path |-> fallback_systems[2]] >>
                    ELSE << >>)
              /\ fallback_used' = TRUE
       ELSE UNCHANGED << font_files, fallback_used >>
    /\ pc' = "check"
    /\ UNCHANGED << k, fonts_dir, dl_log, fi, i, frames, frame_index, tmp_frames,
                    fit_calls, output, error, font, fvars >>

\* lines 157-159: print and return
Abort ==
    /\ pc = "check"
    /\ NoFonts(font_files)
    /\ pc' = "aborted"
    /\ UNCHANGED << k, fonts_dir, font_files, dl_log, fallback_used, fi, i, frames,
                    frame_index, tmp_frames, fit_calls, output, error, font, fvars >>

\* lines 161-165
StartRender ==
    /\ pc = "check"
    /\ ~NoFonts(font_files)
    /\ frames' = << >>
    /\ frame_index' = 0
    /\ fi' = 1
    /\ fit_calls' = [n \in 1..Len(font_files) |-> 0]
    /\ pc' = "font"
    /\ UNCHANGED << k, fonts_dir, font_files, dl_log, fallback_used, i,
                    tmp_frames, output, error, font, fvars >>

\* lines 166-167: the outer loop takes the next font; what the file holds
\* is the environment's
NextFont ==
    /\ pc = "font"
    /\ fi <= Len(font_files)
    /\ font' \in PipelineFonts
    /\ i' = 0
    /\ pc' = "frame"
    /\ UNCHANGED << k, fonts_dir, font_files, dl_log, fallback_used, fi, frames,
                    frame_index, tmp_frames, fit_calls, output, error, fvars >>

\* lines 168-173, one iteration of the inner loop
RenderFrame ==
    /\ pc = "frame"
    /\ ~InnerLoopDone(i)
    /\ LET image == create_frame(WIDTH, HEIGHT, font) IN
         tmp_frames' = (frame_index :> [path |-> font_files[fi].path, image |-> image])
                       @@ tmp_frames
    /\ fit_calls' = [fit_calls EXCEPT ![fi] = @ + 1]
    /\ frames' = AddFrame(frames, frame_index)
    /\ frame_index' = frame_index + 1
    /\ i' = i + 1
    /\ UNCHANGED << pc, k, fonts_dir, font_files, dl_log, fallback_used, fi,
                    output, error, font, fvars >>

\* line 168: the inner loop is over, back to the outer loop
FontDone ==
    /\ pc = "frame"
    /\ InnerLoopDone(i)
    /\ fi' = fi + 1
    /\ pc' = "font"
    /\ UNCHANGED << k, fonts_dir, font_files, dl_log, fallback_used, i, frames,
                    frame_index, tmp_frames, fit_calls, output, error, font, fvars >>

\* lines 175-186: the clip of the frame files in list order, written to
\* OUTPUT, and the frames directory removed; or the encoder raises
Encode ==
    /\ pc = "font"
    /\ fi > Len(font_files)
    /\ \E ok \in BOOLEAN :
         IF ok
         THEN /\ output' = << [n \in 1..Len(frames) |-> tmp_frames[frames[n]]] >>
              /\ tmp_frames' = << >>
              /\ pc' = "done"
              /\ error' = error
         ELSE /\ pc' = "failed"
              /\ error' = "encoder"
              /\ UNCHANGED << output, tmp_frames >>
    /\ UNCHANGED << k, fonts_dir, font_files, dl_log, fallback_used, fi, i, frames,
                    frame_index, fit_calls, font, fvars >>

Next ==
    \/ Download
    \/ Fallback
    \/ Abort
    \/ StartRender
    \/ NextFont
    \/ RenderFrame
    \/ FontDone
    \/ Encode

Spec == Init /\ [][Next]_vars

(* ---- One call of create_frame, the search stepwise ---- *)
InitFrame ==
    /\ pc = "frame"
    /\ k = 1
    /\ fonts_dir = {}
    /\ font_files = << >>
    /\ dl_log = << >>
    /\ fallback_used = FALSE
    /\ fi = 0 /\ i = 0
    /\ frames = << >>
    /\ frame_index = 0
    /\ tmp_frames = << >>
    /\ fit_calls = << >>
    /\ output = << >>
    /\ error = "none"
    /\ font \in Fonts
    /\ cf_pc = "fit"
    /\ lo = FitStart.lo /\ hi = FitStart.hi /\ best_font = FitStart.best_font
    /\ returned = FitStart.returned /\ ret = FitStart.ret
    /\ probes = << >> /\ recorded = {}
    /\ img = NoImage

\* lines 90-103: one evaluation of the loop condition with the body or the
\* return that follows it
FitIterate ==
    /\ cf_pc = "fit"
    /\ LET s == [lo |-> lo, hi |-> hi, best_font |-> best_font,
                 returned |-> returned, ret |-> ret]
           n == FitStep(font, max_w(WIDTH), max_h(HEIGHT), s)
           mid == (lo + hi) \div 2
       IN  /\ lo' = n.lo /\ hi' = n.hi /\ best_font' = n.best_font
           /\ returned' = n.returned /\ ret' = n.ret
           /\ probes' = IF lo <= hi THEN Append(probes, mid) ELSE probes
           /\ recorded' = IF n.best_font # best_font
                          THEN recorded \cup {n.best_font} ELSE recorded
           /\ cf_pc' = IF n.returned # "no" THEN "fitted" ELSE "fit"
    /\ UNCHANGED << pvars, font, img >>

\* lines 116-126
Render ==
    /\ cf_pc = "fitted"
    /\ img' = RenderImage(font, WIDTH, HEIGHT, ret)
    /\ cf_pc' = "done"
    /\ UNCHANGED << pvars, font, lo, hi, best_font, returned, ret, probes, recorded >>

NextFrame ==
    \/ FitIterate
    \/ Render

SpecFrame == InitFrame /\ [][NextFrame]_vars

\* a running call goes on running
SpecFrameFair == SpecFrame /\ WF_vars(NextFrame)

(* ======================= Properties ======================= *)
Sizes == LO..HI
BoxW == max_w(WIDTH)
BoxH == max_h(HEIGHT)

\* the text drawn with the font at size s is within the box
TextFits(fnt, s) == FitsBox(textsize(fnt, s), BoxW, BoxH)
\* size s renders the text within the box
Fits(fnt, s) == FontLoads(fnt, s) /\ TextFits(fnt, s)
FittingSizes(fnt) == { s \in Sizes : Fits(fnt, s) }
MaxOf(S) == CHOOSE m \in S : \A t \in S : t <= m
\* the text fits at every size below a size at which it fits
MonotoneFit(fnt) == \A t \in (LO + 1)..HI : TextFits(fnt, t) => TextFits(fnt, t - 1)
AllProbesLoaded == \A j \in 1..Len(probes) : FontLoads(font, probes[j])
Abs(n) == IF n < 0 THEN 0 - n ELSE n
\* max(1, round(seconds_per_font * frame_rate)) for the configured values
FramesPerFont == Max(1, round(SECONDS_PER_FONT_TENTHS * FPS, 10))
\* the rendering loops are over
StreamBuilt == (pc = "font" /\ fi > Len(font_files)) \/ pc \in {"done", "failed"}

\* C1 as stated: whenever some size of [LO, HI] renders the text within the
\* box, fit_text_on_image returns the font at the largest such size.
C1_ReturnsMaximumFit ==
    (returned # "no" /\ FittingSizes(font) # {}) => ret = MaxOf(FittingSizes(font))

\* C1 amended: when the font loads at every size the search tries and the
\* fit is monotone in the size (the text fits at every size of the range
\* below one at which it fits), and some size of [LO, HI] fits, then
\* fit_text_on_image returns the font at the largest fitting size.
C1_ReturnsMaximumFitWhenMonotone ==
    (returned # "no" /\ AllProbesLoaded /\ FittingSizes(font) # {} /\ MonotoneFit(font))
        => ret = MaxOf(FittingSizes(font))

C1_Witness ==
    /\ cf_pc = "done" /\ returned = "crossed"
    /\ MonotoneFit(font) /\ font.bad = 300
    /\ ret = MaxOf(FittingSizes(font))
    /\ LO < ret /\ ret < HI

\* C2: once the rendering loops are over, the frame list holds, for every
\* font of font_files, max(1, round(seconds_per_font * frame_rate)) frames:
\* len(font_files) * frames_per_font in all, and the clip written has that
\* many frames.
C2_StreamLength ==
    StreamBuilt =>
        /\ Len(frames) = Len(font_files) * FramesPerFont
        /\ pc = "done" => Len(output[1]) = Len(font_files) * FramesPerFont

C2_Witness ==
    /\ pc = "done"
    /\ Len(font_files) = 2
    /\ Len(output[1]) = 120

\* C3: the frames handed to the encoder are in the order of font_files:
\* with n frames per font, the frames at (0-based) positions [i*n, (i+1)*n)
\* are those rendered with the i-th font.
C3_OrderPreserved ==
    /\ ((pc = "font" /\ fi > Len(font_files)) \/ pc = "failed") =>
          \A j \in 1..Len(frames) :
              tmp_frames[frames[j]].path = font_files[((j - 1) \div FramesPerFont) + 1].path
    /\ pc = "done" =>
          /\ Len(output) = 1
          /\ \A j \in 1..Len(output[1]) :
              output[1][j].path = font_files[((j - 1) \div FramesPerFont) + 1].path

C3_Witness ==
    /\ pc = "done"
    /\ Len(font_files) = 2
    /\ output[1][60].path = font_files[1].path
    /\ output[1][61].path = font_files[2].path
    /\ font_files[1].path # font_files[2].path

\* C4 as stated: with an empty resolved font list the pipeline ends by
\* raising NoUsableFontsError, having rendered nothing and written nothing.
C4_RaisesNoUsableFonts ==
    pc = "aborted" =>
        /\ error = "NoUsableFontsError"
        /\ frames = << >> /\ tmp_frames = << >> /\ output = << >>

\* C4 amended: with an empty resolved font list main() returns normally
\* after its message (no exception is raised), before any frame is fitted
\* or rendered, and writes no output file.
C4_ReturnsWithoutRendering ==
    (pc \notin {"download", "fallback", "check"} /\ font_files = << >>) =>
        /\ pc = "aborted"
        /\ error = "none"
        /\ fit_calls = << >>
        /\ frames = << >> /\ tmp_frames = << >> /\ output = << >>

C4_Witness ==
    /\ pc = "aborted"
    /\ fallback_used
    /\ font_files = << >>
    /\ \A n \in 1..Len(dl_log) : dl_log[n].resp \in {"404", "exception"}

\* C5: when no size of the range renders the text within the box,
\* fit_text_on_image returns None, create_frame draws with the default
\* font, the frame has the canvas size, and the call never stops short of
\* returning its frame.
C5_FallbackWhenNothingFits ==
    FittingSizes(font) = {} =>
        /\ returned # "no" => ret = None
        /\ recorded = {}
        /\ cf_pc = "done" =>
              (img.font = DefaultFont /\ img.img_w = WIDTH /\ img.img_h = HEIGHT)
        /\ cf_pc # "done" => ENABLED NextFrame

C5_Witness ==
    /\ cf_pc = "done"
    /\ font.bad = NeverFails
    /\ ~TextFits(font, LO)
    /\ FittingSizes(font) = {}
    /\ img.font = DefaultFont

C7_Centered ==
    cf_pc = "done" =>
        /\ Abs(img.img_w - 2 * img.x - img.w) <= 1
        /\ Abs(img.img_h - 2 * img.y - img.h) <= 1

C7_Witness ==
    /\ cf_pc = "done"
    /\ img.w > WIDTH /\ img.x < 0 /\ (img.w - WIDTH) % 2 = 1
    /\ img.h > HEIGHT /\ img.y < 0 /\ (img.h - HEIGHT) % 2 = 1

\* C8 as stated: once the rendering loops are over, the Glyph Fitter has
\* been called exactly once for every font of font_files.
C8_FitOncePerFont ==
    StreamBuilt => \A n \in 1..Len(font_files) : fit_calls[n] = 1

\* C8 amended: for every font create_frame, and with it the Glyph Fitter,
\* is called once per frame, frames_per_font times in all; every call's
\* frame is saved under its own index and appended once.
C8_FitOncePerFrame ==
    StreamBuilt =>
        /\ DOMAIN fit_calls = 1..Len(font_files)
        /\ \A n \in 1..Len(font_files) : fit_calls[n] = FramesPerFont
        /\ \A a \in 1..Len(frames) : frames[a] = a - 1
        /\ pc # "done" => DOMAIN tmp_frames = 0..(Len(frames) - 1)

C8_Witness ==
    /\ pc = "font" /\ fi > Len(font_files)
    /\ Len(font_files) = 2
    /\ fit_calls[1] = 60 /\ fit_calls[2] = 60

\* C9: every iteration of the search returns or strictly shrinks [lo, hi];
\* the loop is left over its condition only with lo > hi, and then the
\* value returned is the largest size recorded as fitting, None if none
\* was recorded; the search always returns.
C9_SearchTerminates ==
    /\ [][cf_pc = "fit" => (returned' # "no" \/ hi' - lo' < hi - lo)]_vars
    /\ [](returned = "no" => lo <= hi + 1)
    /\ [](returned = "crossed" =>
            /\ lo > hi
            /\ ret = (IF recorded = {} THEN None ELSE MaxOf(recorded)))
    /\ <>(returned # "no")

C9_Witness ==
    /\ returned = "crossed"
    /\ Cardinality(recorded) >= 3
    /\ Len(probes) >= 8
    /\ ret = MaxOf(recorded)

\* the entries of GOOGLE_FONTS, among the first n, whose download_font
\* call found the file or got status 200
RECURSIVE Succeeded(_)
Succeeded(n) ==
    IF n = 0 THEN << >>
    ELSE IF dl_log[n].resp \in {"cached", "200"}
         THEN Append(Succeeded(n - 1),
                     [family |-> GOOGLE_FONTS[n].family, path |-> GOOGLE_FONTS[n].file])
         ELSE Succeeded(n - 1)

\* C10: font resolution tries every configured family and yields the
\* families whose file was found or downloaded, in configured order; a
\* failed download neither ends the run nor drops another family; the
\* system fonts are looked at exactly when no family succeeded.
C10_ResolvedFonts ==
    /\ Len(dl_log) = k - 1
    /\ pc = "download" => (font_files = Succeeded(Len(dl_log)) /\ error = "none")
    /\ pc # "download" =>
          /\ Len(dl_log) = NumFamilies
          /\ Succeeded(NumFamilies) # << >> =>
                (font_files = Succeeded(NumFamilies) /\ ~fallback_used)
          /\ fallback_used => Succeeded(NumFamilies) = << >>
          /\ (pc # "fallback" /\ Succeeded(NumFamilies) = << >>) => fallback_used

C10_Witness ==
    /\ pc = "check"
    /\ dl_log[1].resp = "200" /\ dl_log[2].resp = "404" /\ dl_log[3].resp = "cached"
    /\ Len(font_files) = 2
    /\ font_files[2].family = GOOGLE_FONTS[3].family

====
